---- MODULE Spec2Model ----
(***************************************************************************)
(* A model of the EMS dispatch optimizer of the VidyutAI AI service        *)
(* (src/ai-service/api/router.py): the profile resampler, the parameter    *)
(* clamping and input validation of run_optimization, the MILP that        *)
(* run_optimization builds, the solve, the result extraction and the       *)
(* /v1/optimize endpoint that wraps it.                                     *)
(*                                                                         *)
(* Numbers.  The code computes in floating point; the model computes in    *)
(* exact integers on fixed scales, so that every equality of the code is   *)
(* an exact equality here:                                                 *)
(*   power                 kW                                              *)
(*   percentages           whole percent (0.95 is 95, 0.1 is 10)           *)
(*   solar shape           hundredths (1.0 is 100)                         *)
(*   step_size             quarter hours (step_size = step_quarters / 4)   *)
(*   battery energy        1 / BatteryEnergyScale kWh                      *)
(*   hydrogen mass         1 / H2MassScale kg, tank level 1/(4*H2MassScale)*)
(*   diesel fuel           1 / FuelScale litre                             *)
(* A resampled series is kept as its numerators over one denominator       *)
(* (np.interp divides by n*k-1), which is exact for every input.           *)
(***************************************************************************)
EXTENDS Integers, Sequences, FiniteSets, TLC

VARIABLES
    params,              \* the params dict handed to run_optimization
    load_profile_24h,    \* the raw load profile argument
    price_profile_24h,   \* the raw price profile argument
    pc,                  \* position of the request in run_optimization / the endpoint
    cfg,                 \* the validated locals of run_optimization (lines 84-98)
    load_profile,        \* prepared series (lines 128-133)
    price_profile,
    solar_profile,       \* line 134
    model_built,         \* TRUE once LpProblem and its variables exist (line 173 on)
    solver_calls,        \* number of model.solve calls made by this run
    solve_status,        \* what the solver answered
    raised,              \* the exception that left run_optimization, or "none"
    response,            \* what the endpoint answered
    t,                   \* the step whose solved values are held in cur
    cur,                 \* the solved values of step t
    first,               \* the storage levels the solution has at step 0
    objective,           \* the objective (lines 275-286) of the steps solved so far
    grid_is_load,        \* TRUE while the grid power equalled the load at every solved step
    summary,             \* the summary dictionary of lines 364-415
    environ,             \* os.environ["COIN_CMD"], which outlives the call (line 290)
    run,                 \* the number of this call of the pipeline
    previous,            \* the model, solver answer and result of the call before
    totals,              \* sums over the steps solved so far (lines 333-348)
    rcParams,            \* matplotlib's process-wide style settings (lines 417-425)
    MOCK_ALERTS,             \* app.data.mock_data: site id -> list of alerts
    MOCK_RL_SUGGESTIONS,     \* app.data.mock_data: site id -> list of suggestions
    LAST_SUGGESTION_ACTION,  \* app.data.mock_data: site id -> time of the last decision
    in_flight,           \* the requests of actions.py waiting in their asyncio.sleep
    answered,            \* the last answer one of those requests got
    now,                 \* the number of datetime.now() readings taken so far
    calls                \* the number of requests to actions.py made so far

vars == << params, load_profile_24h, price_profile_24h, pc, cfg, load_profile,
           price_profile, solar_profile, model_built, solver_calls, solve_status,
           raised, response, t, cur, first, objective, grid_is_load, summary,
           environ, run, previous, totals, rcParams, MOCK_ALERTS,
           MOCK_RL_SUGGESTIONS, LAST_SUGGESTION_ACTION, in_flight, answered, now,
           calls >>

\* the state of app/api/endpoints/actions.py and of the data it imports
storeVars == << MOCK_ALERTS, MOCK_RL_SUGGESTIONS, LAST_SUGGESTION_ACTION, in_flight,
               answered, now, calls >>

\* the state of api/router.py
routerVars == << params, load_profile_24h, price_profile_24h, pc, cfg, load_profile,
                price_profile, solar_profile, model_built, solver_calls, solve_status,
                raised, response, t, cur, first, objective, grid_is_load, summary,
                environ, run, previous, totals, rcParams >>

----------------------------------------------------------------------------
(* Small helpers                                                           *)

Max(a, b) == IF a >= b THEN a ELSE b

Min(a, b) == IF a <= b THEN a ELSE b

\* list * n : the list repeated n times (line 76)
RECURSIVE Repeat(_, _)
Repeat(s, n) == IF n <= 0 THEN << >> ELSE s \o Repeat(s, n - 1)

----------------------------------------------------------------------------
(* Bounds of the model                                                     *)

\* largest num_days a request of the model asks for
MaxDays == 2

\* largest num_days of a dispatch walk
MaxDispatchDays == 1

\* the longest coarse profile and the finest resolution given to the resampler
MaxCoarseLen == 3

MaxStepsPerHour == 4

\* calls of the pipeline that follow one another in one process
\* the walk with the hydrogen totals follows assignments in which the
\* electrolyzer runs in at most this many steps
MaxProducingSteps == 2

\* the number of requests made to the endpoints of actions.py
MaxCalls == 3

\* the longest list of suggestions a site gets
MaxSuggestions == 3

MaxRuns == 2

----------------------------------------------------------------------------
(* Program constants (run_optimization)                                    *)

MinProfileLen == 24
HoursPerDay == 24
MinDays == 1
MaxNumDays == 30
DefaultResolution == 30
Resolutions == {15, 30, 60}
MinGrid == 100
MinBatteryWh == 1000
MinBatteryVoltage == 12

bess_min_soc == 10
bess_max_soc == 90
bess_charge_efficiency == 95
bess_discharge_efficiency == 95
diesel_min_percent == 10
fuel_slope == 9            \* 0.18 litre per kW, in 1/FuelScale litre
fuel_intercept == 2400     \* 48 litre, in 1/FuelScale litre
FuelScale == 50

electrolyzer_capacity == 1000
fuel_cell_capacity == 800
h2_tank_capacity == 100
fuel_cell_efficiency_percent == 60
H2_LHV_x10 == 333          \* H2_LHV = 33.3 kWh/kg
h2_min_soc == 10
h2_max_soc == 90
P_break1_percent == 20
eff_at_break1 == 80
eff_at_break2 == 75

----------------------------------------------------------------------------
(* Profile resampler: upsample_profile                                     *)

\* np.interp divides by the spacing of np.linspace(0, n-1, n*k): n*k - 1
UpsampleDen(n, k) == Max(n * k - 1, 1)

\* an interpolation that takes the fine step for a whole hour
InterpNum_whole_hours(hourly_profile, steps_per_hour, i) ==
    LET n == Len(hourly_profile)
        D == UpsampleDen(n, steps_per_hour)
        j == (i * (n - 1)) \div D
        r == i * (n - 1) - j * D
    IN  IF r = 0
        THEN hourly_profile[j + 1] * D
        ELSE hourly_profile[j + 1] * D
             + r * steps_per_hour * (hourly_profile[j + 2] - hourly_profile[j + 1])

\* numerator, over UpsampleDen, of np.interp(fine_times[i], hourly_times, profile)
\* with fine_times[i] = i*(n-1)/(n*k-1); i counts from 0 as in the code
InterpNum(hourly_profile, steps_per_hour, i) ==
    LET n == Len(hourly_profile)
        D == UpsampleDen(n, steps_per_hour)
        j == (i * (n - 1)) \div D
        r == i * (n - 1) - j * D
    IN  IF r = 0
        THEN hourly_profile[j + 1] * D
        ELSE hourly_profile[j + 1] * D
             + r * (hourly_profile[j + 2] - hourly_profile[j + 1])

\* a resampler that returns the single day
upsample_profile_one_day(hourly_profile, steps_per_hour, num_days) ==
    LET n == Len(hourly_profile)
    IN  [den |-> UpsampleDen(n, steps_per_hour),
         num |-> [i \in 1..(n * steps_per_hour) |->
                     InterpNum(hourly_profile, steps_per_hour, i - 1)]]

\* a resampler whose days drift: day j is raised by j
upsample_profile_rising_by_day(hourly_profile, steps_per_hour, num_days) ==
    LET n == Len(hourly_profile)
        L == n * steps_per_hour
    IN  [den |-> UpsampleDen(n, steps_per_hour),
         num |-> [i \in 1..(L * num_days) |->
                    InterpNum(hourly_profile, steps_per_hour, (i - 1) % L)
                    + ((i - 1) \div L) * UpsampleDen(n, steps_per_hour)]]

upsample_profile(hourly_profile, steps_per_hour, num_days) ==
    LET n == Len(hourly_profile)
        upsampled_single_day ==
            [i \in 1..(n * steps_per_hour) |->
                InterpNum(hourly_profile, steps_per_hour, i - 1)]
    IN  [den |-> UpsampleDen(n, steps_per_hour),
         num |-> Repeat(upsampled_single_day, num_days)]

\* a caller's list used unchanged
AsIs(profile) == [den |-> 1, num |-> profile]

SeriesLen(series) == Len(series.num)

----------------------------------------------------------------------------
(* run_optimization, lines 84-134: parameters, validation, profiles        *)

\* str(...).lower() on the weather strings of the model
Lower(s) ==
    CASE s = "Sunny" -> "sunny"
      [] s = "RAINY" -> "rainy"
      [] s = "Cloudy" -> "cloudy"
      [] OTHER -> s

\* a clamp that only raises the number of days to the minimum
ClampDays_from_below(n) == Max(1, n)

ClampDays(n) == Max(MinDays, Min(MaxNumDays, n))

SnapResolution(m) == IF m \in Resolutions THEN m ELSE DefaultResolution

Configure(p) ==
    [ num_days                |-> ClampDays(p.num_days),
      time_resolution_minutes |-> SnapResolution(p.time_resolution_minutes),
      grid_connection         |-> Max(MinGrid, p.grid_connection),
      solar_connection        |-> Max(0, p.solar_connection),
      battery_capacity_wh     |-> Max(MinBatteryWh, p.battery_capacity),
      battery_voltage         |-> Max(MinBatteryVoltage, p.battery_voltage),
      diesel_capacity         |-> Max(0, p.diesel_capacity),
      fuel_price              |-> Max(0, p.fuel_price),
      pv_energy_cost          |-> Max(0, p.pv_energy_cost),
      load_curtail_cost       |-> Max(0, p.load_curtail_cost),
      battery_om_cost         |-> Max(0, p.battery_om_cost),
      weather                 |-> Lower(p.weather) ]

\* a validation that looks at the load profile only
ValidationError_load_only(load, price) ==
    IF Len(load) < 24 THEN "Load profile must contain at least 24 data points"
    ELSE "none"

\* the ValueError of lines 100-103, or "none"
ValidationError(load, price) ==
    IF Len(load) < MinProfileLen THEN "Load profile must contain at least 24 data points"
    ELSE IF Len(price) < MinProfileLen THEN "Price profile must contain at least 24 data points"
    ELSE "none"

SunnyShape ==
    << 0, 0, 0, 0, 0, 0, 5, 20, 40, 60, 80, 90,
       100, 95, 85, 70, 50, 25, 5, 0, 0, 0, 0, 0 >>

RainyShape ==
    << 0, 0, 0, 0, 0, 0, 1, 5, 10, 15, 20, 25,
       30, 25, 20, 15, 10, 5, 1, 0, 0, 0, 0, 0 >>

\* a choice of shape that takes every weather but "sunny" for rain
solar_profile_base_rain_otherwise(weather) ==
    IF weather = "sunny" THEN SunnyShape ELSE RainyShape

solar_profile_base(weather) ==
    IF weather = "sunny" THEN SunnyShape
    ELSE IF weather = "rainy" THEN RainyShape
    ELSE SunnyShape

\* step_size in quarter hours
step_quarters(c) == c.time_resolution_minutes \div 15

steps_per_hour(c) == 60 \div c.time_resolution_minutes

time_horizon(c) == c.num_days * HoursPerDay * steps_per_hour(c)

\* lines 128-134
PreparedLoad(c, load, price) ==
    IF Len(load) = time_horizon(c)
    THEN AsIs(load)
    ELSE upsample_profile(load, steps_per_hour(c), c.num_days)

PreparedPrice(c, load, price) ==
    IF Len(load) = time_horizon(c)
    THEN AsIs(price)
    ELSE upsample_profile(price, steps_per_hour(c), c.num_days)

PreparedSolar(c) ==
    upsample_profile(solar_profile_base(c.weather), steps_per_hour(c), c.num_days)

----------------------------------------------------------------------------
(* run_optimization, lines 136-171: derived quantities of the MILP         *)

\* value of series[t] as the code reads it; t counts from 0
At(series, step) == series.num[step + 1] \div series.den

grid_max_power(c) == c.grid_connection

solar_capacity(c) == c.solar_connection

\* battery_capacity_wh / 1000.0, in kWh
battery_storage_energy(c) == c.battery_capacity_wh \div 1000

bess_energy_capacity(c) == battery_storage_energy(c)

\* battery_power = battery_storage_energy * 0.5, doubled to stay whole
bess_power_capacity_x2(c) == battery_storage_energy(c)

\* 0.1 * diesel_capacity
diesel_min_power(c) == (diesel_min_percent * c.diesel_capacity) \div 100

\* a generator whose maximum power is the rated 2200 kW whatever the request says
diesel_max_power_rated(c) == 2200

diesel_max_power(c) == c.diesel_capacity

\* battery energy is counted in 1/BatteryEnergyScale kWh: with it
\* step_size * (P_charge * 0.95 - P_discharge / 0.95) is the whole number
\* step_quarters * (P_charge * 95 * 95 - P_discharge * 100 * 100)
BatteryEnergyScale == 4 * 100 * bess_discharge_efficiency

\* one percent of the battery's energy capacity
battery_percent(c) == (bess_energy_capacity(c) * BatteryEnergyScale) \div 100

\* hydrogen mass is counted in 1/H2MassScale kg (24 * 333 = 7992), which makes
\* both electrolyzer slopes and the fuel-cell conversion rate whole numbers
H2MassScale == 24 * H2_LHV_x10

\* 1 / H2_LHV kg per kWh, in 1/H2MassScale kg
PerLHV == (10 * H2MassScale) \div H2_LHV_x10

\* one percent of the tank's capacity; the level is counted in 1/(4*H2MassScale) kg
h2_percent == (h2_tank_capacity * 4 * H2MassScale) \div 100

P_break1 == (electrolyzer_capacity * P_break1_percent) \div 100

P_break2 == electrolyzer_capacity

H2_at_break1 == (P_break1 * eff_at_break1 * PerLHV) \div 100

H2_at_break2 == (P_break2 * eff_at_break2 * PerLHV) \div 100

slope_s1 == IF P_break1 > 0 THEN H2_at_break1 \div P_break1 ELSE 0

slope_s2 ==
    IF P_break2 - P_break1 > 0
    THEN (H2_at_break2 - H2_at_break1) \div (P_break2 - P_break1)
    ELSE 0

width_s1 == P_break1

width_s2 == P_break2 - P_break1

\* 1 / (H2_LHV * 0.60) kg per kWh, in 1/H2MassScale kg
fc_conversion_rate == (100 * PerLHV) \div fuel_cell_efficiency_percent

----------------------------------------------------------------------------
(* The request: /v1/optimize calling run_optimization                      *)

NoCfg == [none |-> TRUE]

NoSeries == [den |-> 1, num |-> << >>]

NoResponse == [code |-> 0, status |-> "none", message |-> "none"]

NoStatus == [status |-> "none", has_values |-> FALSE]

NoException == [type |-> "none", message |-> "none"]

\* no step of a solution is held yet (t = -1)
NoStep == [E_battery_next |-> 0, E_h2_next |-> 0]

NoSummary == [none |-> TRUE]

NoModel == [none |-> TRUE]

NoPrevious == [model |-> NoModel, answer |-> NoStatus, summary |-> NoSummary,
               response |-> NoResponse]

\* the sums of lines 345-348 before any step is added
NoTotals == [h2_produced |-> 0, h2_consumed |-> 0, producing_steps |-> 0]

\* no request of actions.py has been answered
NoAnswer ==
    [n |-> 0, kind |-> "none", site_id |-> "none", item_id |-> "none", code |-> 0,
     result |-> << >>]

\* the dictionaries actions.py imports from app.data.mock_data (lines 13 and 16)
\* when the process starts: one site with two alerts and two pending
\* suggestions, and no decision taken yet
StoresAtImport ==
    /\ MOCK_ALERTS = ("site_a" :> << [id |-> "alert_1", status |-> "active"],
                                     [id |-> "alert_2", status |-> "active"] >>)
    /\ MOCK_RL_SUGGESTIONS = ("site_a" :> << [id |-> "sugg_1", status |-> "pending"],
                                             [id |-> "sugg_2", status |-> "pending"] >>)
    /\ LAST_SUGGESTION_ACTION = [site \in {} |-> 0]
    /\ in_flight = {}
    /\ answered = NoAnswer
    /\ now = 0
    /\ calls = 0

NoLevels == [E_battery |-> 0, E_h2 |-> 0]

\* lines 84-103: clamp the parameters, then validate the two profiles
ValidateInputs ==
    /\ pc = "called"
    /\ cfg' = Configure(params)
    /\ LET err == ValidationError(load_profile_24h, price_profile_24h)
       IN  IF err = "none"
           THEN pc' = "validated" /\ raised' = raised
           ELSE pc' = "raised" /\ raised' = [type |-> "ValueError", message |-> err]
    /\ UNCHANGED << params, load_profile_24h, price_profile_24h, load_profile,
                    price_profile, solar_profile, model_built, solver_calls,
                    solve_status, response, t, cur, first,
                    objective, grid_is_load, totals, summary, environ, run, previous, rcParams, storeVars >>

\* lines 105-134: resample (or keep) the profiles
PrepareProfiles ==
    /\ pc = "validated"
    /\ load_profile' = PreparedLoad(cfg, load_profile_24h, price_profile_24h)
    /\ price_profile' = PreparedPrice(cfg, load_profile_24h, price_profile_24h)
    /\ solar_profile' = PreparedSolar(cfg)
    /\ pc' = "prepared"
    /\ UNCHANGED << params, load_profile_24h, price_profile_24h, cfg, model_built,
                    solver_calls, solve_status, raised, response, t, cur, first,
                    objective, grid_is_load, totals, summary, environ, run, previous, rcParams, storeVars >>

\* the list index that fails while the constraints (line 209) and the objective
\* (line 277) read load_profile[t] and price_profile[t] for t in range(time_horizon)
BuildError(c, load, price) ==
    IF SeriesLen(load) < time_horizon(c) \/ SeriesLen(price) < time_horizon(c)
    THEN "list index out of range"
    ELSE "none"

\* lines 136-286: create the variables, the constraints and the objective
BuildModel ==
    /\ pc = "prepared"
    /\ model_built' = TRUE
    /\ LET err == BuildError(cfg, load_profile, price_profile)
       IN  IF err = "none"
           THEN pc' = "built" /\ raised' = raised
           ELSE pc' = "raised" /\ raised' = [type |-> "IndexError", message |-> err]
    /\ UNCHANGED << params, load_profile_24h, price_profile_24h, cfg, load_profile,
                    price_profile, solar_profile, solver_calls, solve_status,
                    response, t, cur, first,
                    objective, grid_is_load, totals, summary, environ, run, previous, rcParams, storeVars >>

\* no assignment satisfies power_balance at a step whose load is below what the
\* grid export, the battery charge and the electrolyzer can absorb together
ProvablyInfeasible(c, load) ==
    \E step \in 0..(time_horizon(c) - 1) :
        2 * (At(load, step) + grid_max_power(c) + electrolyzer_capacity)
            + bess_power_capacity_x2(c) < 0

\* with no load below zero the idle assignment (all load and all PV curtailed,
\* storages at rest) satisfies every constraint
IdleFeasible(c, load) ==
    \A step \in 0..(time_horizon(c) - 1) : At(load, step) >= 0

\* what model.solve can leave behind: the status, and whether the variables
\* got values (a status other than Optimal may leave them None)
SolverAnswers(c, load) ==
    (IF IdleFeasible(c, load)
     THEN {[status |-> "Optimal", has_values |-> TRUE]} ELSE {})
    \cup
    (IF ProvablyInfeasible(c, load)
     THEN {[status |-> "Infeasible", has_values |-> b] : b \in BOOLEAN} ELSE {})
    \cup
    {[status |-> "PulpSolverError", has_values |-> FALSE]}

\* the problem handed to the solver is determined by the configuration and
\* the three prepared series
TheModel ==
    [cfg |-> cfg, load |-> load_profile, price |-> price_profile, solar |-> solar_profile]

\* a solver that is a function of the model gives a model it solved in the
\* call before the answer it gave then
AnswersOfSolver ==
    IF previous.model = TheModel THEN {previous.answer}
    ELSE SolverAnswers(cfg, load_profile)

\* a run that solves again when the solver did not answer Optimal
SolveModel_with_retry ==
    /\ \/ pc = "built"
       \/ pc = "solved" /\ solve_status.status # "Optimal" /\ solver_calls < 3
    /\ solver_calls' = solver_calls + 1
    /\ environ' = environ
    /\ \E answer \in SolverAnswers(cfg, load_profile) :
          /\ solve_status' = answer
          /\ IF answer.status = "PulpSolverError"
             THEN pc' = "raised"
                  /\ raised' = [type |-> "PulpSolverError", message |-> "solver failed"]
             ELSE pc' = "solved" /\ raised' = raised
    /\ UNCHANGED << params, load_profile_24h, price_profile_24h, cfg, load_profile,
                    price_profile, solar_profile, model_built, response, t, cur, first,
                    objective, grid_is_load, totals, summary, run, previous, rcParams,
                    storeVars >>

\* lines 288-295: one model.solve; its status is not read.  When cbc is on
\* the PATH its path is written to os.environ["COIN_CMD"]
SolveModel ==
    /\ pc = "built"
    /\ solver_calls' = solver_calls + 1
    /\ \E cbc_path \in {"", "/usr/bin/cbc"} :
          environ' = IF cbc_path # "" THEN cbc_path ELSE environ
    /\ \E answer \in AnswersOfSolver :
          /\ solve_status' = answer
          /\ IF answer.status = "PulpSolverError"
             THEN pc' = "raised"
                  /\ raised' = [type |-> "PulpSolverError", message |-> "solver failed"]
             ELSE pc' = "solved" /\ raised' = raised
    /\ UNCHANGED << params, load_profile_24h, price_profile_24h, cfg, load_profile,
                    price_profile, solar_profile, model_built, response, t, cur, first,
                    objective, grid_is_load, totals, summary, run, previous, rcParams, storeVars >>

\* lines 364-367 of the summary; the totals of lines 368-414 are functions of
\* the values the solver left, which the answer stands for
Summary_of_all_runs(c, answer) ==
    [Optimization_Period_days |-> run * c.num_days,
     Resolution_min |-> c.time_resolution_minutes,
     Weather |-> c.weather,
     Totals |-> answer]

Summary(c, answer) ==
    [ Optimization_Period_days |-> c.num_days,
      Resolution_min |-> c.time_resolution_minutes,
      Weather |-> c.weather,
      Totals |-> answer ]

\* lines 297-489: read the values; value(x) of a variable without a value is
\* None and the arithmetic of line 302 raises TypeError
\* lines 417-425: plt.style.use and plt.rcParams.update write matplotlib's
\* process-wide settings; nothing restores them before the return of line 487
rcParamsDefault == [style |-> "default", font_family |-> "sans-serif", font_size |-> 10]

PlotStyle(settings) ==
    [settings EXCEPT !.style = "seaborn-v0_8-whitegrid", !.font_family = "serif",
                     !.font_size = 14]

ExtractResults ==
    /\ pc = "solved"
    /\ IF solve_status.has_values
       THEN pc' = "returned" /\ raised' = raised /\ summary' = Summary(cfg, solve_status)
            /\ rcParams' = PlotStyle(rcParams)
       ELSE pc' = "raised" /\ summary' = summary /\ rcParams' = rcParams
            /\ raised' = [type |-> "TypeError", message |-> "unsupported operand"]
    /\ UNCHANGED << params, load_profile_24h, price_profile_24h, cfg, load_profile,
                    price_profile, solar_profile, model_built, solver_calls,
                    solve_status, response, t, cur, first,
                    objective, grid_is_load, totals, environ, run, previous, storeVars >>

\* optimize_sources, lines 699-715
EndpointResponse(position, exception) ==
    IF position = "returned"
    THEN [code |-> 200, status |-> "success", message |-> "summary"]
    ELSE IF exception.type = "ValueError"
    THEN [code |-> 400, status |-> "error", message |-> exception.message]
    ELSE [code |-> 500, status |-> "error", message |-> "Optimization failed"]

Respond ==
    /\ pc \in {"returned", "raised"}
    /\ response' = EndpointResponse(pc, raised)
    /\ pc' = "responded"
    /\ UNCHANGED << params, load_profile_24h, price_profile_24h, cfg, load_profile,
                    price_profile, solar_profile, model_built, solver_calls,
                    solve_status, raised, t, cur, first,
                    objective, grid_is_load, totals, summary, environ, run, previous, rcParams, storeVars >>

----------------------------------------------------------------------------
(* Requests of the model                                                   *)

RawLengths == {10, 24, 48}

LoadLevels == {800, -9000}

RequestDays == (-1..MaxDays) \cup {MaxNumDays, MaxNumDays + 1, 50}

RequestWeathers == {"Sunny", "RAINY", "Cloudy"}

RequestResolutions == {10, 15, 30, 45, 50, 60}

ConstantProfile(n, level) == [i \in 1..n |-> level]

\* the Form defaults of optimize_sources (lines 613-624); money in 1/1000
DefaultParams ==
    [ num_days |-> 2, time_resolution_minutes |-> 30, grid_connection |-> 2000,
      solar_connection |-> 2000, battery_capacity |-> 4000000, battery_voltage |-> 100,
      diesel_capacity |-> 2200, fuel_price |-> 95000, pv_energy_cost |-> 2850,
      load_curtail_cost |-> 50000, battery_om_cost |-> 6085, weather |-> "Sunny" ]

Init ==
    /\ \E d \in RequestDays, m \in RequestResolutions, w \in RequestWeathers :
          params = [DefaultParams EXCEPT !.num_days = d, !.time_resolution_minutes = m,
                                         !.weather = w]
    /\ \E n \in RawLengths, level \in LoadLevels :
          load_profile_24h = ConstantProfile(n, level)
    /\ \E n \in RawLengths : price_profile_24h = ConstantProfile(n, 5)
    /\ pc = "called"
    /\ cfg = NoCfg
    /\ load_profile = NoSeries
    /\ price_profile = NoSeries
    /\ solar_profile = NoSeries
    /\ model_built = FALSE
    /\ solver_calls = 0
    /\ solve_status = NoStatus
    /\ raised = NoException
    /\ response = NoResponse
    /\ t = -1
    /\ cur = NoStep
    /\ first = NoLevels
    /\ objective = 0
    /\ grid_is_load = TRUE
    /\ summary = NoSummary
    /\ environ = ""
    /\ run = 1
    /\ previous = NoPrevious
    /\ totals = NoTotals
    /\ rcParams = rcParamsDefault
    /\ StoresAtImport

\* optimize_sources is called again, in the same process, with the same form
\* values and the same uploaded profiles
CallAgain ==
    /\ pc = "responded"
    /\ run < MaxRuns
    /\ run' = run + 1
    /\ previous' = [model |-> IF solver_calls > 0 THEN TheModel ELSE NoModel,
                    answer |-> solve_status, summary |-> summary, response |-> response]
    /\ pc' = "called"
    /\ cfg' = NoCfg
    /\ load_profile' = NoSeries
    /\ price_profile' = NoSeries
    /\ solar_profile' = NoSeries
    /\ model_built' = FALSE
    /\ solver_calls' = 0
    /\ solve_status' = NoStatus
    /\ raised' = NoException
    /\ response' = NoResponse
    /\ summary' = NoSummary
    /\ UNCHANGED << params, load_profile_24h, price_profile_24h, t, cur, first,
                    objective, grid_is_load, environ, totals, rcParams, storeVars >>

Next ==
    \/ ValidateInputs
    \/ PrepareProfiles
    \/ BuildModel
    \/ SolveModel
    \/ ExtractResults
    \/ Respond
    \/ CallAgain

Spec == Init /\ [][Next]_vars

----------------------------------------------------------------------------
(* The MILP of run_optimization, lines 173-273.                            *)
(* Each definition below is one variable declaration or one constraint;    *)
(* its arguments are the values an assignment gives to the variables of    *)
(* one step.                                                               *)

Binary == {0, 1}

\* line 176
bounds_P_grid(c, P_grid) == -grid_max_power(c) <= P_grid /\ P_grid <= grid_max_power(c)

\* a curtailment that is capped at half the electrolyzer's rating
bounds_P_load_curt_capped(P_load_curt) ==
    0 <= P_load_curt /\ 2 * P_load_curt <= electrolyzer_capacity

\* line 177
bounds_P_load_curt(P_load_curt) == 0 <= P_load_curt

\* line 178
bounds_P_diesel(c, P_diesel) == 0 <= P_diesel /\ P_diesel <= diesel_max_power(c)

\* line 180
bounds_F_diesel(F_diesel) == 0 <= F_diesel

\* lines 181-182
bounds_P_charge(c, P_charge) == 0 <= P_charge /\ 2 * P_charge <= bess_power_capacity_x2(c)

bounds_P_discharge(c, P_discharge) ==
    0 <= P_discharge /\ 2 * P_discharge <= bess_power_capacity_x2(c)

\* lines 183-190
bounds_E_battery(c, E_battery) ==
    /\ bess_min_soc * battery_percent(c) <= E_battery
    /\ E_battery <= bess_max_soc * battery_percent(c)

\* lines 192-193
bounds_P_pv(P_pv_used, P_solar_curt) == 0 <= P_pv_used /\ 0 <= P_solar_curt

\* lines 194-195
bounds_P_elec(P_elec) == 0 <= P_elec /\ P_elec <= electrolyzer_capacity

bounds_P_fc(P_fc) == 0 <= P_fc /\ P_fc <= fuel_cell_capacity

\* a tank that may be filled completely
bounds_E_h2_to_full(E_h2) ==
    /\ 10 * 31968 <= E_h2
    /\ E_h2 <= 100 * 31968

\* lines 196-201
bounds_E_h2(E_h2) ==
    /\ h2_min_soc * h2_percent <= E_h2
    /\ E_h2 <= h2_max_soc * h2_percent

\* lines 203-204
bounds_P_elec_s(P_elec_s1, P_elec_s2) ==
    /\ 0 <= P_elec_s1 /\ P_elec_s1 <= width_s1
    /\ 0 <= P_elec_s2 /\ P_elec_s2 <= width_s2

\* line 206
bounds_H_produced(H_produced) == 0 <= H_produced

\* a balance that leaves the fuel cell out of the supply
power_balance_without_fuel_cell(load_t, P_pv_used, P_diesel, P_discharge, P_grid, P_fc, P_load_curt, P_charge, P_elec) ==
    P_pv_used + P_diesel + P_discharge + P_grid = (load_t - P_load_curt) + P_charge + P_elec

\* lines 208-212
power_balance(load_t, P_pv_used, P_diesel, P_discharge, P_grid, P_fc, P_load_curt, P_charge, P_elec) ==
    LET load_served == load_t - P_load_curt
        supply == P_pv_used + P_diesel + P_discharge + P_grid + P_fc
        demand == load_served + P_charge + P_elec
    IN  supply = demand

\* line 215: solar_profile[t] * solar_capacity
solar_available(c, solar, step) ==
    (solar.num[step + 1] * solar_capacity(c)) \div (100 * solar.den)

\* a PV balance that only asks used and curtailed power to cover the available power
pv_balance_at_least(available, P_pv_used, P_solar_curt) == P_pv_used + P_solar_curt >= available

\* line 216
pv_balance(available, P_pv_used, P_solar_curt) == P_pv_used + P_solar_curt = available

\* a minimum diesel power that holds without the on-indicator and is zero
diesel_min_without_indicator(c, P_diesel, z_diesel) == P_diesel >= 0

\* lines 219-221
diesel_min(c, P_diesel, z_diesel) == P_diesel >= diesel_min_power(c) * z_diesel

diesel_max(c, P_diesel, z_diesel) == P_diesel <= diesel_max_power(c) * z_diesel

fuel_cons(F_diesel, P_diesel, z_diesel) ==
    F_diesel >= fuel_slope * P_diesel + fuel_intercept * z_diesel

\* line 223
initial_battery_level(c) == 50 * battery_percent(c)

\* line 224
battery_initial(c, E_battery_0) == E_battery_0 = initial_battery_level(c)

\* step_size * (P_charge * 0.95 - P_discharge * (1.0 / 0.95)), lines 231-235
battery_net_inflow(c, P_charge, P_discharge) ==
    step_quarters(c)
    * (P_charge * bess_charge_efficiency * bess_discharge_efficiency
       - P_discharge * 100 * 100)

\* lines 228-236
battery_dynamics(c, E_battery_next, E_battery, P_charge, P_discharge) ==
    E_battery_next = E_battery + battery_net_inflow(c, P_charge, P_discharge)

\* a charge limit without the mode indicator
charge_limit_without_mode(c, P_charge, z_bess) ==
    2 * P_charge <= bess_power_capacity_x2(c)

\* lines 237-238; the capacity is doubled on both sides
charge_limit(c, P_charge, z_bess) ==
    2 * P_charge <= bess_power_capacity_x2(c) * (1 - z_bess)

discharge_limit(c, P_discharge, z_bess) ==
    2 * P_discharge <= bess_power_capacity_x2(c) * z_bess

\* a closure that compares the level before the final step with the initial level
battery_cyclic_soc_before_final_step(c, E_battery_last, P_charge, P_discharge) ==
    50 * battery_percent(c) = E_battery_last

\* lines 240-248
battery_cyclic_soc(c, E_battery_last, P_charge, P_discharge) ==
    initial_battery_level(c)
        = E_battery_last + battery_net_inflow(c, P_charge, P_discharge)

\* line 250
initial_h2_level == 50 * h2_percent

\* line 251
h2_initial(E_h2_0) == E_h2_0 = initial_h2_level

\* lines 254-257
elec_sum(P_elec, P_elec_s1, P_elec_s2) == P_elec = P_elec_s1 + P_elec_s2

h2_prod(H_produced, P_elec_s1, P_elec_s2) ==
    H_produced = (P_elec_s1 * slope_s1) + (P_elec_s2 * slope_s2)

\* a segment order without the indicator of segment 2
elec_s1_before_s2_without_indicator(P_elec_s1, z_elec_s2) == P_elec_s1 >= 0

elec_s1_before_s2(P_elec_s1, z_elec_s2) == P_elec_s1 >= width_s1 * z_elec_s2

elec_s2_activation(P_elec_s2, z_elec_s2) == P_elec_s2 <= width_s2 * z_elec_s2

\* lines 258-259
fc_limit(P_fc, z_h2) == P_fc <= fuel_cell_capacity * z_h2

\* an electrolyzer limit without the mode indicator
elec_limit_without_mode(P_elec, z_h2) == P_elec <= 1000

elec_limit(P_elec, z_h2) == P_elec <= electrolyzer_capacity * (1 - z_h2)

\* H_produced[t] * step_size - P_fc[t] * step_size * fc_conversion_rate
h2_net_inflow(c, H_produced, P_fc) ==
    H_produced * step_quarters(c) - P_fc * step_quarters(c) * fc_conversion_rate

\* a tank the fuel cell does not draw from
h2_dyn_without_consumption(c, E_h2_next, E_h2, H_produced, P_fc) ==
    E_h2_next = E_h2 + H_produced * step_quarters(c)

\* lines 260-266
h2_dyn(c, E_h2_next, E_h2, H_produced, P_fc) ==
    E_h2_next = E_h2 + h2_net_inflow(c, H_produced, P_fc)

\* a tank that may close above its opening level
h2_cyclic_at_least(c, E_h2_0, E_h2_last, H_produced, P_fc) ==
    E_h2_0 <= E_h2_last + h2_net_inflow(c, H_produced, P_fc)

\* lines 268-273
h2_cyclic(c, E_h2_0, E_h2_last, H_produced, P_fc) ==
    E_h2_0 = E_h2_last + h2_net_inflow(c, H_produced, P_fc)

----------------------------------------------------------------------------
(* Result extraction, lines 299-328, for the step held in cur              *)

\* line 319
Battery_Level(r) == r.E_battery

\* line 312
Diesel_Power(r) == r.P_diesel

\* line 320: value(E_battery[t]) / bess_energy_capacity * 100, as a fraction
Battery_SOC(c, r) ==
    [num |-> r.E_battery, den |-> battery_percent(c)]

\* lines 299-304 and 327: recomputed from production and consumption
H2_Level(c, r) == r.E_h2 + r.H_produced * step_quarters(c)
                  - r.P_fc * step_quarters(c) * fc_conversion_rate

\* line 328: level / h2_tank_capacity * 100, as a fraction
H2_SOC(c, r) == [num |-> H2_Level(c, r), den |-> h2_percent]

----------------------------------------------------------------------------
(* The solve, seen from inside: the values a solver may return.  The walk  *)
(* assigns the steps 0 .. time_horizon-1 in order; a step is accepted only *)
(* with every constraint that mentions its variables, so the assignments   *)
(* that reach "solved" are the assignments that satisfy the model, drawn   *)
(* from the candidate values below.                                        *)

Cand_P_charge == {0, 800, 1200}

Cand_P_discharge == {0, 722, 1200}

\* half an hour of charging at 800 kW
BatteryLevelStep == 2 * 800 * bess_charge_efficiency * bess_discharge_efficiency

Cand_E_battery(c) == {initial_battery_level(c) + k * BatteryLevelStep : k \in -3..3}

Cand_P_elec_s1 == {0, 200, 300}

Cand_P_elec_s2 == {0, 800}

Cand_P_elec == {0, 800, 1000}

Cand_H_produced == {0, 800 * slope_s2, 200 * slope_s1 + 800 * slope_s2}

Cand_P_fc == {0, 450, 900}

\* half an hour of the electrolyzer at full power
H2LevelStep == 2 * (200 * slope_s1 + 800 * slope_s2)

\* with the level half an hour of segment 2 alone would give
Cand_E_h2 ==
    {initial_h2_level + k * H2LevelStep : k \in -4..4}
        \cup {initial_h2_level + 2 * 800 * slope_s2}

Cand_P_diesel == {0, 100, 220}

Cand_F_diesel == {0, fuel_slope * 220 + fuel_intercept}

Cand_P_pv(available) == {0, available, available + 100}

Cand_P_load_curt(load_t) == {0, load_t, load_t + 100}

\* the grid power that closes the balance of the other values, the limits, zero
\* and a value beyond the limit
Cand_P_grid(c, gap) ==
    {gap, 0, grid_max_power(c), -grid_max_power(c), grid_max_power(c) + 100}

\* lines 181-182, 191, 237-238
BatteryChoices(c) ==
    { b \in [z_bess : Binary, P_charge : Cand_P_charge, P_discharge : Cand_P_discharge] :
        /\ bounds_P_charge(c, b.P_charge)
        /\ bounds_P_discharge(c, b.P_discharge)
        /\ charge_limit(c, b.P_charge, b.z_bess)
        /\ discharge_limit(c, b.P_discharge, b.z_bess) }

\* lines 194, 203-206, 254-257
ElectrolyzerChoices ==
    { e \in [P_elec_s1 : Cand_P_elec_s1, P_elec_s2 : Cand_P_elec_s2, z_elec_s2 : Binary,
             P_elec : Cand_P_elec, H_produced : Cand_H_produced] :
        /\ bounds_P_elec(e.P_elec)
        /\ bounds_P_elec_s(e.P_elec_s1, e.P_elec_s2)
        /\ bounds_H_produced(e.H_produced)
        /\ elec_sum(e.P_elec, e.P_elec_s1, e.P_elec_s2)
        /\ h2_prod(e.H_produced, e.P_elec_s1, e.P_elec_s2)
        /\ elec_s1_before_s2(e.P_elec_s1, e.z_elec_s2)
        /\ elec_s2_activation(e.P_elec_s2, e.z_elec_s2) }

\* lines 195, 202, 258-259
HydrogenChoices ==
    { h \in [elec : ElectrolyzerChoices, z_h2 : Binary, P_fc : Cand_P_fc] :
        /\ bounds_P_fc(h.P_fc)
        /\ fc_limit(h.P_fc, h.z_h2)
        /\ elec_limit(h.elec.P_elec, h.z_h2) }

\* lines 178-180, 219-221
DieselChoices(c) ==
    { d \in [P_diesel : Cand_P_diesel, z_diesel : Binary, F_diesel : Cand_F_diesel] :
        /\ bounds_P_diesel(c, d.P_diesel)
        /\ bounds_F_diesel(d.F_diesel)
        /\ diesel_min(c, d.P_diesel, d.z_diesel)
        /\ diesel_max(c, d.P_diesel, d.z_diesel)
        /\ fuel_cons(d.F_diesel, d.P_diesel, d.z_diesel) }

\* lines 192-193, 214-216
PVChoices(available) ==
    { pv \in [P_pv_used : Cand_P_pv(available), P_solar_curt : Cand_P_pv(available)] :
        /\ bounds_P_pv(pv.P_pv_used, pv.P_solar_curt)
        /\ pv_balance(available, pv.P_pv_used, pv.P_solar_curt) }

\* the walk moves on to the variables of the next step; of the step it leaves
\* only E_battery[t+1] and E_h2[t+1] are still constrained
NextStep ==
    /\ pc = "assigned"
    /\ cur' = [E_battery_next |-> cur.E_battery_next, E_h2_next |-> cur.E_h2_next]
    /\ pc' = "solving"
    /\ UNCHANGED << params, load_profile_24h, price_profile_24h, cfg, load_profile,
                    price_profile, solar_profile, model_built, solver_calls,
                    solve_status, raised, response, t, first,
                    objective, grid_is_load, totals, summary, environ, run, previous, rcParams, storeVars >>

\* model.solve (line 295) giving the variables of one more step their values
AssignValues ==
    /\ pc = "solving"
    /\ LET step == t + 1
           last == (step = time_horizon(cfg) - 1)
           load_t == At(load_profile, step)
           available == solar_available(cfg, solar_profile, step)
       IN
       \E E_battery \in (IF step = 0 THEN Cand_E_battery(cfg) ELSE {cur.E_battery_next}),
          E_h2 \in (IF step = 0 THEN Cand_E_h2 ELSE {cur.E_h2_next}) :
         /\ bounds_E_battery(cfg, E_battery)
         /\ bounds_E_h2(E_h2)
         /\ (step = 0) => (battery_initial(cfg, E_battery) /\ h2_initial(E_h2))
         /\ \E b \in BatteryChoices(cfg),
               E_battery_next \in (IF last THEN {first.E_battery} ELSE Cand_E_battery(cfg)) :
              /\ IF last
                 THEN battery_cyclic_soc(cfg, E_battery, b.P_charge, b.P_discharge)
                 ELSE /\ battery_dynamics(cfg, E_battery_next, E_battery,
                                          b.P_charge, b.P_discharge)
                      /\ bounds_E_battery(cfg, E_battery_next)
              /\ \E h \in HydrogenChoices,
                    E_h2_next \in (IF last THEN {first.E_h2} ELSE Cand_E_h2) :
                   /\ IF last
                      THEN h2_cyclic(cfg, first.E_h2, E_h2, h.elec.H_produced, h.P_fc)
                      ELSE /\ h2_dyn(cfg, E_h2_next, E_h2, h.elec.H_produced, h.P_fc)
                           /\ bounds_E_h2(E_h2_next)
                   /\ \E d \in DieselChoices(cfg),
                         pv \in PVChoices(available),
                         P_load_curt \in Cand_P_load_curt(load_t) :
                        /\ bounds_P_load_curt(P_load_curt)
                        /\ \E P_grid \in Cand_P_grid(cfg,
                                 load_t - P_load_curt + b.P_charge + h.elec.P_elec
                                 - pv.P_pv_used - d.P_diesel - b.P_discharge - h.P_fc) :
                             /\ bounds_P_grid(cfg, P_grid)
                             /\ power_balance(load_t, pv.P_pv_used, d.P_diesel,
                                              b.P_discharge, P_grid, h.P_fc,
                                              P_load_curt, b.P_charge, h.elec.P_elec)
                             /\ cur' = [ P_grid |-> P_grid,
                                         P_load_curt |-> P_load_curt,
                                         P_diesel |-> d.P_diesel,
                                         z_diesel |-> d.z_diesel,
                                         F_diesel |-> d.F_diesel,
                                         P_charge |-> b.P_charge,
                                         P_discharge |-> b.P_discharge,
                                         E_battery |-> E_battery,
                                         z_bess |-> b.z_bess,
                                         P_pv_used |-> pv.P_pv_used,
                                         P_solar_curt |-> pv.P_solar_curt,
                                         P_elec |-> h.elec.P_elec,
                                         P_fc |-> h.P_fc,
                                         E_h2 |-> E_h2,
                                         z_h2 |-> h.z_h2,
                                         P_elec_s1 |-> h.elec.P_elec_s1,
                                         P_elec_s2 |-> h.elec.P_elec_s2,
                                         z_elec_s2 |-> h.elec.z_elec_s2,
                                         H_produced |-> h.elec.H_produced,
                                         E_battery_next |-> E_battery_next,
                                         E_h2_next |-> E_h2_next ]
                             /\ first' = IF step = 0
                                         THEN [E_battery |-> E_battery, E_h2 |-> E_h2]
                                         ELSE first
                             /\ t' = step
                             /\ pc' = IF last THEN "solved" ELSE "assigned"
                             /\ solve_status' =
                                    IF last THEN [status |-> "Optimal", has_values |-> TRUE]
                                    ELSE solve_status
    /\ UNCHANGED << params, load_profile_24h, price_profile_24h, cfg, load_profile,
                    price_profile, solar_profile, model_built, solver_calls,
                    raised, response,
                    summary, environ, run, previous, rcParams, storeVars >>

\* the walk when only the constraints matter
AssignStep ==
    /\ AssignValues
    /\ UNCHANGED << objective, grid_is_load, totals >>

\* money of the request in half units: exact for the costs of the priced plants
HalfUnits(milli) == milli \div 500

\* electrolyzer_om_cost = 0.5 and fuel_cell_om_cost = 1.5 (lines 154-155), in half units
electrolyzer_om_cost_x2 == 1

fuel_cell_om_cost_x2 == 3

\* lines 275-286: the term of one step, in 1/200 of a money unit (half units,
\* quarter hours, and 1/50 litre for the fuel)
StepObjective_curtailment_at_grid_price(c, price_t, r) ==
    25 * step_quarters(c)
        * ( 2 * price_t * r.P_grid
            + 2 * price_t * r.P_load_curt
            + HalfUnits(c.pv_energy_cost) * r.P_pv_used
            + HalfUnits(c.battery_om_cost) * r.P_discharge
            + fuel_cell_om_cost_x2 * r.P_fc
            + electrolyzer_om_cost_x2 * r.P_elec )
    + 2 * HalfUnits(c.fuel_price) * r.F_diesel

StepObjective(c, price_t, r) ==
    25 * step_quarters(c)
       * ( 2 * price_t * r.P_grid
           + HalfUnits(c.load_curtail_cost) * r.P_load_curt
           + HalfUnits(c.pv_energy_cost) * r.P_pv_used
           + HalfUnits(c.battery_om_cost) * r.P_discharge
           + fuel_cell_om_cost_x2 * r.P_fc
           + electrolyzer_om_cost_x2 * r.P_elec )
    + 2 * HalfUnits(c.fuel_price) * r.F_diesel

\* the walk with the objective of the assignment added up step by step
AssignPricedStep ==
    /\ AssignValues
    /\ objective' = objective + StepObjective(cfg, At(price_profile, t'), cur')
    /\ grid_is_load' = (grid_is_load /\ cur'.P_grid = At(load_profile, t'))
    /\ UNCHANGED totals

\* a day that is low at night and high from 08:00 to 19:59
DayProfile(low, high) ==
    [i \in 1..HoursPerDay |-> IF (i - 1) \in 8..19 THEN high ELSE low]

\* the plants the walk is run for
DispatchPlants ==
    { [DefaultParams EXCEPT !.time_resolution_minutes = 60, !.grid_connection = 5000,
                            !.solar_connection = 4700, !.battery_capacity = 2000000,
                            !.diesel_capacity = 0],
      [DefaultParams EXCEPT !.time_resolution_minutes = 30, !.grid_connection = 50,
                            !.solar_connection = 0, !.battery_capacity = 0,
                            !.weather = "RAINY"],
      [DefaultParams EXCEPT !.time_resolution_minutes = 30, !.grid_connection = 5000,
                            !.solar_connection = 4700, !.battery_capacity = 0,
                            !.diesel_capacity = 0, !.weather = "rainy"] }

DispatchDays == 1..MaxDispatchDays

InitDispatch ==
    /\ \E plant \in DispatchPlants, d \in DispatchDays :
          params = [plant EXCEPT !.num_days = d]
    /\ load_profile_24h = DayProfile(470, 940)
    /\ price_profile_24h = ConstantProfile(HoursPerDay, 5)
    /\ cfg = Configure(params)
    /\ load_profile = PreparedLoad(cfg, load_profile_24h, price_profile_24h)
    /\ price_profile = PreparedPrice(cfg, load_profile_24h, price_profile_24h)
    /\ solar_profile = PreparedSolar(cfg)
    /\ pc = "solving"
    /\ model_built = TRUE
    /\ solver_calls = 1
    /\ solve_status = NoStatus
    /\ raised = NoException
    /\ response = NoResponse
    /\ t = -1
    /\ cur = NoStep
    /\ first = NoLevels
    /\ objective = 0
    /\ grid_is_load = TRUE
    /\ summary = NoSummary
    /\ environ = ""
    /\ run = 1
    /\ previous = NoPrevious
    /\ totals = NoTotals
    /\ rcParams = rcParamsDefault
    /\ StoresAtImport

NextDispatch ==
    \/ AssignStep
    \/ NextStep
    \/ ExtractResults
    \/ Respond

SpecDispatch == InitDispatch /\ [][NextDispatch]_vars

\* every value the walk reads from a series is a whole number of kW
SeriesExact ==
    (pc = "solving") =>
        /\ \A i \in 1..SeriesLen(load_profile) :
              load_profile.num[i] % load_profile.den = 0
        /\ \A i \in 1..SeriesLen(solar_profile) :
              (solar_profile.num[i] * solar_capacity(cfg)) % (100 * solar_profile.den) = 0

----------------------------------------------------------------------------
(* Claims                                                                  *)

LoadMessage == "Load profile must contain at least 24 data points"

PriceMessage == "Price profile must contain at least 24 data points"

\* the run failed validation with this message before anything was built
FailedValidation(message) ==
    /\ raised = [type |-> "ValueError", message |-> message]
    /\ ~model_built
    /\ solver_calls = 0
    /\ (pc = "responded") =>
           (response.code = 400 /\ response.status = "error" /\ response.message = message)

\* C1 as stated: a load profile of fewer than 24 samples fails with a validation
\* error naming the load profile, and a price profile of fewer than 24 samples
\* fails with a validation error naming the price profile; both before any
\* variable or constraint exists and before the solver runs, reported as 400.
C1_ShortProfilesNamed ==
    (pc # "called") =>
        /\ (Len(load_profile_24h) < 24) => FailedValidation(LoadMessage)
        /\ (Len(price_profile_24h) < 24) => FailedValidation(PriceMessage)

\* C1 amended: a load profile of fewer than 24 samples fails with a validation
\* error naming the load profile; a price profile of fewer than 24 samples,
\* given with a load profile of at least 24 samples, fails with a validation
\* error naming the price profile; both before any variable or constraint
\* exists and before the solver runs, reported by the endpoint as 400.
C1_ShortProfilesNamedInOrder ==
    (pc # "called") =>
        /\ (Len(load_profile_24h) < 24) => FailedValidation(LoadMessage)
        /\ (Len(load_profile_24h) >= 24 /\ Len(price_profile_24h) < 24)
               => FailedValidation(PriceMessage)

C1_Witness ==
    /\ pc = "responded"
    /\ Len(load_profile_24h) >= 24
    /\ Len(price_profile_24h) < 24
    /\ response.code = 400
    /\ response.message = PriceMessage

\* how a caller tells the answers of the endpoint apart
ReportedOutcome ==
    IF response.code = 200 /\ response.status = "success" THEN "success"
    ELSE IF response.code = 400 THEN "validation"
    ELSE IF response.code = 500 THEN "solver_error"
    ELSE "other"

\* C2: every request ends in exactly one of the four outcomes success,
\* validation failure, infeasibility, solver error; a solve whose status is
\* infeasible is reported as its own failure, never as success, as a
\* validation error or as a solver error.
C2_InfeasibleReportedDistinctly ==
    (pc = "responded") =>
        /\ response.code \in {200, 400, 500}
        /\ (solve_status.status = "Infeasible")
               => ReportedOutcome \notin {"success", "validation", "solver_error"}

\* C3: for every accepted pair of profiles (both of raw length >= 24) the
\* prepared load and price series both have exactly time_horizon values; a
\* profile whose length is time_horizon is used unchanged and any other is
\* resampled to that length.
C3_SeriesCoverHorizon ==
    (pc \in {"prepared", "built", "solved", "returned"}) =>
        /\ SeriesLen(load_profile) = time_horizon(cfg)
        /\ SeriesLen(price_profile) = time_horizon(cfg)
        /\ (Len(load_profile_24h) = time_horizon(cfg))
               => load_profile = AsIs(load_profile_24h)
        /\ (Len(price_profile_24h) = time_horizon(cfg))
               => price_profile = AsIs(price_profile_24h)

\* cur holds the solved values of step t
HasStep == t >= 0 /\ pc # "solving"

LastStep == t = time_horizon(cfg) - 1

\* C4: at every step of an assignment that satisfies the constraints,
\* used PV + diesel + battery discharge + grid + fuel cell
\*   = (load[t] - curtailed load) + battery charge + electrolyzer,
\* and the grid power lies within [-grid limit, +grid limit].
C4_PowerBalance ==
    HasStep =>
        /\ cur.P_pv_used + cur.P_diesel + cur.P_discharge + cur.P_grid + cur.P_fc
               = (At(load_profile, t) - cur.P_load_curt) + cur.P_charge + cur.P_elec
        /\ cur.P_grid >= -cfg.grid_connection
        /\ cur.P_grid <= cfg.grid_connection

C4_Witness ==
    /\ pc = "assigned"
    /\ cur.P_pv_used > 0
    /\ cur.P_charge > 0
    /\ cur.P_elec > 0
    /\ cur.P_grid < 0
    /\ cur.P_load_curt > 0

\* C5: at every step of an assignment that satisfies the constraints,
\* used PV + curtailed PV = solar_capacity_kw * solar_shape[t], both terms are
\* non-negative, and so used PV never exceeds the available solar power.
C5_PVBalance ==
    HasStep =>
        /\ (cur.P_pv_used + cur.P_solar_curt) * 100 * solar_profile.den
               = cfg.solar_connection * solar_profile.num[t + 1]
        /\ cur.P_pv_used >= 0
        /\ cur.P_solar_curt >= 0
        /\ cur.P_pv_used * 100 * solar_profile.den
               <= cfg.solar_connection * solar_profile.num[t + 1]

C5_Witness ==
    /\ pc = "assigned"
    /\ cur.P_pv_used > 0
    /\ cur.P_solar_curt = 0
    /\ cfg.weather = "rainy"
    /\ solar_profile.den = 47

\* the level a store has after step t by the stated dynamics:
\* E + step_hours * (charge * 0.95 - discharge / 0.95) for the battery,
\* level + step_hours * (production - fuel-cell power / (33.3 * 0.6)) for the tank
BatteryAfterStep ==
    cur.E_battery
    + (cfg.time_resolution_minutes \div 15) * (cur.P_charge * 9025 - cur.P_discharge * 10000)

TankAfterStep ==
    cur.E_h2
    + (cfg.time_resolution_minutes \div 15)
      * (cur.P_elec_s1 * 192 + cur.P_elec_s2 * 177 - cur.P_fc * 400)

\* C6: for the battery and for the hydrogen tank the level starts at 50% of
\* capacity at step 0, the level of step t+1 is the level of step t plus the
\* step's net inflow, and the level computed after the final step equals the
\* level at step 0.
C6_StorageCycle ==
    HasStep =>
        /\ first.E_battery = 50 * (cfg.battery_capacity_wh \div 1000) * 380
        /\ first.E_h2 = 50 * 31968
        /\ (t = 0) => (cur.E_battery = first.E_battery /\ cur.E_h2 = first.E_h2)
        /\ (~LastStep) => (cur.E_battery_next = BatteryAfterStep
                           /\ cur.E_h2_next = TankAfterStep)
        /\ LastStep => (BatteryAfterStep = first.E_battery
                        /\ TankAfterStep = first.E_h2)

C6_Witness ==
    /\ pc = "solved"
    /\ LastStep
    /\ cur.P_discharge > 0
    /\ cur.P_fc > 0
    /\ cur.E_battery > first.E_battery
    /\ cur.E_h2 > first.E_h2

\* a percentage given as a fraction lies within [10, 90]
Within10To90(x) == 10 * x.den <= x.num /\ x.num <= 90 * x.den

\* C7: at every step the battery energy and the tank level stay within
\* [10%, 90%] of capacity, as solved variables and as the reported
\* Battery_Level / Battery_SOC and H2_Level / H2_SOC.
C7_StorageBounds ==
    HasStep =>
        /\ Within10To90([num |-> cur.E_battery,
                         den |-> (cfg.battery_capacity_wh \div 1000) * 380])
        /\ Within10To90([num |-> cur.E_h2, den |-> 31968])
        /\ Within10To90([num |-> Battery_Level(cur),
                         den |-> (cfg.battery_capacity_wh \div 1000) * 380])
        /\ Within10To90(Battery_SOC(cfg, cur))
        /\ Within10To90([num |-> H2_Level(cfg, cur), den |-> 31968])
        /\ Within10To90(H2_SOC(cfg, cur))

C7_Witness ==
    /\ pc = "assigned"
    /\ cur.E_battery > first.E_battery
    /\ cur.E_h2 > 70 * 31968
    /\ H2_Level(cfg, cur) < cur.E_h2

\* C8: at no step of an assignment that satisfies the constraints are battery
\* charge power and battery discharge power both non-zero.
C8_ChargeXorDischarge ==
    HasStep => ~(cur.P_charge # 0 /\ cur.P_discharge # 0)

C8_Witness ==
    /\ pc = "assigned"
    /\ cur.P_charge > 0
    /\ cur.z_bess = 0
    /\ cur.P_discharge = 0

\* C9: at no step of an assignment that satisfies the constraints are
\* electrolyzer power and fuel-cell power both non-zero.
C9_ElectrolyzerXorFuelCell ==
    HasStep => ~(cur.P_elec # 0 /\ cur.P_fc # 0)

C9_Witness ==
    /\ pc = "assigned"
    /\ cur.P_fc > 0
    /\ cur.z_h2 = 1
    /\ cur.P_elec = 0

\* C10: at every step the electrolyzer power is the sum of its two segments,
\* segment 1 is at most 20% of the electrolyzer capacity, and segment 2 is
\* non-zero only if segment 1 equals its full width (20% of the capacity).
C10_SegmentOrder ==
    HasStep =>
        /\ cur.P_elec = cur.P_elec_s1 + cur.P_elec_s2
        /\ 100 * cur.P_elec_s1 <= 20 * 1000
        /\ (cur.P_elec_s2 # 0) => (100 * cur.P_elec_s1 = 20 * 1000)

C10_Witness ==
    /\ pc = "assigned"
    /\ cur.P_elec_s2 > 0
    /\ cur.z_elec_s2 = 1
    /\ cur.P_elec = 1000

\* C11: at every step of an assignment that satisfies the constraints the
\* diesel power is 0 when the on-indicator is 0, and lies between 10% and 100%
\* of the diesel capacity when the indicator is 1.
C11_DieselWindow ==
    HasStep =>
        /\ (cur.z_diesel = 0) => (cur.P_diesel = 0)
        /\ (cur.z_diesel = 1) =>
               /\ 10 * cfg.diesel_capacity <= 100 * cur.P_diesel
               /\ cur.P_diesel <= cfg.diesel_capacity

C11_Witness ==
    /\ pc = "assigned"
    /\ cfg.diesel_capacity = 2200
    /\ cur.z_diesel = 1
    /\ cur.P_diesel = 220

\* C12: at every step of an assignment that satisfies the constraints the fuel
\* use equals 0.18 * diesel power + 48 * on-indicator (in 1/50 litre: 9 and
\* 2400), so it is 0 whenever the generator is off.
C12_FuelAffine ==
    HasStep =>
        /\ cur.F_diesel = 9 * cur.P_diesel + 2400 * cur.z_diesel
        /\ (cur.z_diesel = 0) => (cur.F_diesel = 0)

\* the number of days the claim expects for the requested number
ExpectedDays ==
    IF params.num_days > 30 THEN 30
    ELSE IF params.num_days < 1 THEN 1
    ELSE params.num_days

\* C13: the configured number of days is clamped into [1, 30] (50 gives 30,
\* 0 or a negative number gives 1), and the clamped value is the one used for
\* the horizon and reported as Optimization_Period_days.
C13_DaysClamped ==
    /\ (pc # "called") => (cfg.num_days = ExpectedDays /\ cfg.num_days \in 1..30)
    /\ (pc \in {"prepared", "built", "solved", "returned"}) =>
           /\ time_horizon(cfg) = ExpectedDays * 24 * (60 \div cfg.time_resolution_minutes)
           /\ SeriesLen(solar_profile) = time_horizon(cfg)
    /\ (pc = "returned") => (summary.Optimization_Period_days = ExpectedDays)

C13_Witness ==
    /\ pc = "returned"
    /\ params.num_days = 50
    /\ summary.Optimization_Period_days = 30
    /\ SeriesLen(solar_profile) = 30 * 24 * 4

Distance(a, b) == IF a >= b THEN a - b ELSE b - a

\* the supported resolutions that are nearest to m
NearestSupported(m) ==
    {r \in {15, 30, 60} : \A q \in {15, 30, 60} : Distance(m, r) <= Distance(m, q)}

\* C14: a resolution in {15, 30, 60} is kept and any other value is snapped to
\* the nearest supported value (45 snaps to 30).
C14_SnapNearest ==
    (pc # "called") =>
        /\ (params.time_resolution_minutes \in {15, 30, 60})
               => (cfg.time_resolution_minutes = params.time_resolution_minutes)
        /\ cfg.time_resolution_minutes \in NearestSupported(params.time_resolution_minutes)
        /\ (params.time_resolution_minutes = 45) => (cfg.time_resolution_minutes = 30)

----------------------------------------------------------------------------
(* upsample_profile on its own                                             *)

CoarseValues == {0, 5, 9}

CoarseProfiles ==
    UNION {[1..n -> CoarseValues] : n \in 1..MaxCoarseLen}

InitUpsample ==
    /\ load_profile_24h \in CoarseProfiles
    /\ \E k \in 1..MaxStepsPerHour, d \in 1..MaxDays :
          cfg = [steps_per_hour |-> k, num_days |-> d]
    /\ pc = "upsample"
    /\ params = DefaultParams
    /\ price_profile_24h = << >>
    /\ load_profile = NoSeries
    /\ price_profile = NoSeries
    /\ solar_profile = NoSeries
    /\ model_built = FALSE
    /\ solver_calls = 0
    /\ solve_status = NoStatus
    /\ raised = NoException
    /\ response = NoResponse
    /\ t = -1
    /\ cur = NoStep
    /\ first = NoLevels
    /\ objective = 0
    /\ grid_is_load = TRUE
    /\ summary = NoSummary
    /\ environ = ""
    /\ run = 1
    /\ previous = NoPrevious
    /\ totals = NoTotals
    /\ rcParams = rcParamsDefault
    /\ StoresAtImport

\* lines 68-76
UpsampleCall ==
    /\ pc = "upsample"
    /\ load_profile' = upsample_profile(load_profile_24h, cfg.steps_per_hour, cfg.num_days)
    /\ pc' = "upsampled"
    /\ UNCHANGED << params, load_profile_24h, price_profile_24h, cfg, price_profile,
                    solar_profile, model_built, solver_calls, solve_status, raised,
                    response, t, cur, first, objective, grid_is_load, totals, summary,
                    environ, run, previous, rcParams, storeVars >>

NextUpsample == UpsampleCall

SpecUpsample == InitUpsample /\ [][NextUpsample]_vars

\* C15: for every hourly profile of length n >= 1, every steps_per_hour k >= 1
\* and every num_days d >= 1, upsample_profile(profile, k, d) has exactly
\* n * k * d values.
C15_UpsampleLength ==
    (pc = "upsampled") =>
        SeriesLen(load_profile) = Len(load_profile_24h) * cfg.steps_per_hour * cfg.num_days

C15_Witness ==
    /\ pc = "upsampled"
    /\ Len(load_profile_24h) = 3
    /\ cfg.steps_per_hour = 4
    /\ cfg.num_days = 2
    /\ SeriesLen(load_profile) = 24

NonDecreasing(s) == \A i \in 1..(Len(s) - 1) : s[i] <= s[i + 1]

NonIncreasing(s) == \A i \in 1..(Len(s) - 1) : s[i] >= s[i + 1]

\* the values of the resampled day number j, counted from 0
ResampledDay(j) ==
    LET L == Len(load_profile_24h) * cfg.steps_per_hour
    IN  SubSeq(load_profile.num, j * L + 1, j * L + L)

\* C16: the first value of each resampled day equals the first coarse value,
\* the last value of each resampled day equals the last coarse value, every
\* resampled value lies between the minimum and the maximum of the coarse
\* profile, and for a monotone coarse profile the one-day resampled sequence
\* is monotone in the same direction.
C16_UpsampleShape ==
    (pc = "upsampled") =>
        LET coarse == load_profile_24h
            n == Len(coarse)
            den == load_profile.den
        IN  /\ \A j \in 0..(cfg.num_days - 1) :
                  /\ ResampledDay(j)[1] = coarse[1] * den
                  /\ ResampledDay(j)[Len(ResampledDay(j))] = coarse[n] * den
            /\ \A i \in 1..SeriesLen(load_profile) :
                  /\ \E a \in 1..n : coarse[a] * den <= load_profile.num[i]
                  /\ \E b \in 1..n : load_profile.num[i] <= coarse[b] * den
            /\ NonDecreasing(coarse) => NonDecreasing(ResampledDay(0))
            /\ NonIncreasing(coarse) => NonIncreasing(ResampledDay(0))

C16_Witness ==
    /\ pc = "upsampled"
    /\ load_profile_24h = << 0, 5, 9 >>
    /\ cfg.steps_per_hour = 4
    /\ cfg.num_days = 2
    /\ load_profile.num[2] > load_profile.num[1]
    /\ load_profile.num[13] = 0
    /\ load_profile.num[24] = 9 * load_profile.den

Peak(shape) ==
    CHOOSE m \in {shape[i] : i \in 1..Len(shape)} : \A i \in 1..Len(shape) : shape[i] <= m

\* the sunny shape of the specification, in percent of the capacity
SunnyPercent ==
    << 0, 0, 0, 0, 0, 0, 5, 20, 40, 60, 80, 90, 100, 95, 85, 70, 50, 25, 5, 0, 0, 0, 0, 0 >>

\* C17: the solar shape has 24 values, all in [0, 1]; the peak of the rainy
\* shape (0.3) is strictly less than the peak of the sunny shape (1.0); every
\* weather string other than sunny or rainy, compared without regard to case,
\* yields exactly the sunny shape.  The run resamples that shape.
C17_SolarShape ==
    /\ Peak(solar_profile_base("rainy")) = 30
    /\ Peak(solar_profile_base("sunny")) = 100
    /\ Peak(solar_profile_base("rainy")) < Peak(solar_profile_base("sunny"))
    /\ (pc \in {"prepared", "built", "solved", "returned"}) =>
           LET shape == solar_profile_base(cfg.weather)
           IN  /\ Len(shape) = 24
               /\ \A i \in 1..24 : 0 <= shape[i] /\ shape[i] <= 100
               /\ (params.weather \notin {"Sunny", "sunny", "RAINY", "rainy"})
                      => (shape = SunnyPercent)
               /\ (params.weather = "RAINY") => (Peak(shape) = 30)
               /\ solar_profile = upsample_profile(shape, 60 \div cfg.time_resolution_minutes,
                                                   cfg.num_days)

C17_Witness ==
    /\ pc = "prepared"
    /\ params.weather = "Cloudy"
    /\ cfg.weather = "cloudy"
    /\ cfg.time_resolution_minutes = 60
    /\ solar_profile.num[13] = 100 * solar_profile.den

\* C18: when diesel_capacity is 0 the diesel power is 0 at every step of the
\* extracted result, whatever the load and the price are.
C18_NoDieselWithoutGenerator ==
    (HasStep /\ cfg.diesel_capacity = 0) => (Diesel_Power(cur) = 0)

C18_Witness ==
    /\ pc = "returned"
    /\ params.diesel_capacity = 0
    /\ cur.z_diesel = 1
    /\ Diesel_Power(cur) = 0
    /\ At(load_profile, t) > 0

----------------------------------------------------------------------------
(* The walk with the objective: a plant without battery, PV and diesel     *)

\* battery at its floor of 1000 Wh, no PV, no generator, curtailment at 50 per
\* kWh; the costs are whole multiples of one half
PricedPlant ==
    [DefaultParams EXCEPT !.num_days = 1, !.time_resolution_minutes = 60,
                          !.grid_connection = 5000, !.solar_connection = 0,
                          !.battery_capacity = 0, !.diesel_capacity = 0,
                          !.pv_energy_cost = 3000, !.battery_om_cost = 6000,
                          !.fuel_price = 0]

\* a price that is the same all day, and one that is low at night
PricedDays == {ConstantProfile(HoursPerDay, 5), DayProfile(2, 10)}

InitOptimal ==
    /\ params = PricedPlant
    /\ load_profile_24h = DayProfile(470, 940)
    /\ price_profile_24h \in PricedDays
    /\ cfg = Configure(params)
    /\ load_profile = PreparedLoad(cfg, load_profile_24h, price_profile_24h)
    /\ price_profile = PreparedPrice(cfg, load_profile_24h, price_profile_24h)
    /\ solar_profile = PreparedSolar(cfg)
    /\ pc = "solving"
    /\ model_built = TRUE
    /\ solver_calls = 1
    /\ solve_status = NoStatus
    /\ raised = NoException
    /\ response = NoResponse
    /\ t = -1
    /\ cur = NoStep
    /\ first = NoLevels
    /\ objective = 0
    /\ grid_is_load = TRUE
    /\ summary = NoSummary
    /\ environ = ""
    /\ run = 1
    /\ previous = NoPrevious
    /\ totals = NoTotals
    /\ rcParams = rcParamsDefault
    /\ StoresAtImport

RECURSIVE GridOnlyFrom(_)
\* the objective of the steps from step on when the grid carries the load alone
GridOnlyFrom(step) ==
    IF step >= time_horizon(cfg) THEN 0
    ELSE 25 * (cfg.time_resolution_minutes \div 15) * 2
            * At(price_profile, step) * At(load_profile, step)
         + GridOnlyFrom(step + 1)

HighestPrice ==
    CHOOSE p \in {At(price_profile, i) : i \in 0..(time_horizon(cfg) - 1)} :
        \A i \in 0..(time_horizon(cfg) - 1) : At(price_profile, i) <= p

LowestPrice ==
    CHOOSE p \in {At(price_profile, i) : i \in 0..(time_horizon(cfg) - 1)} :
        \A i \in 0..(time_horizon(cfg) - 1) : At(price_profile, i) >= p

\* the most a fuel cell can take off the objective by burning hydrogen, per 400
\* tank units (one kW for a quarter of an hour): the grid energy it replaces less
\* its own cost
FuelCellGain == 25 * Max(0, 2 * HighestPrice - fuel_cell_om_cost_x2)

\* the least the electrolyzer adds to the objective by making hydrogen, per
\* slope_s1 tank units (one kW for a quarter of an hour at its best slope)
ElectrolyzerCost == 25 * (2 * LowestPrice + electrolyzer_om_cost_x2)

\* a lower bound of the objective of the steps from step on, for a plant
\* without PV, diesel and battery power, prices that are not negative and a
\* tank that holds level before that step.  The steps cost what the grid costs
\* when it carries the load, less what burning the hydrogen above the closing
\* level can gain (more when the tank is below it), less what making hydrogen at
\* the lowest price and burning it at the highest can gain on everything the
\* electrolyzer can still make.
CostFloor(step, level) ==
    LET made == (time_horizon(cfg) - step) * step_quarters(cfg) * H2_at_break2
        margin == Max(0, slope_s1 * FuelCellGain - fc_conversion_rate * ElectrolyzerCost)
    IN  GridOnlyFrom(step)
        + ((FuelCellGain * (first.E_h2 - level)) \div fc_conversion_rate)
        - margin * ((made + slope_s1 * fc_conversion_rate - 1)
                        \div (slope_s1 * fc_conversion_rate))

\* the solver minimises (LpMinimize, line 173): the walk drops an assignment
\* as soon as no completion of it can cost as little as the grid carrying the
\* load alone, which is itself an assignment that satisfies the constraints
NextPricedStep ==
    /\ objective + CostFloor(t + 1, cur.E_h2_next) <= GridOnlyFrom(0)
    /\ NextStep

NextOptimal ==
    \/ AssignPricedStep
    \/ NextPricedStep

SpecOptimal == InitOptimal /\ [][NextOptimal]_vars

\* what the claim takes for granted of the plant
NothingButGrid ==
    /\ cfg.battery_capacity_wh = 1000
    /\ cfg.solar_connection = 0
    /\ cfg.diesel_capacity = 0
    /\ \A step \in 0..(time_horizon(cfg) - 1) :
          1000 * At(price_profile, step) < cfg.load_curtail_cost

FlatPositivePrice ==
    \A step \in 0..(time_horizon(cfg) - 1) :
        At(price_profile, step) > 0 /\ At(price_profile, step) = At(price_profile, 0)

LoadWithinGridLimit ==
    \A step \in 0..(time_horizon(cfg) - 1) : At(load_profile, step) <= cfg.grid_connection

\* C19 as stated: with the battery at its floor, no PV, no diesel and a
\* curtailment cost above the grid price at every step, the grid import equals
\* the load at every step of the optimal dispatch: no complete assignment is
\* cheaper than the one in which the grid carries the load, and an assignment
\* as cheap as that one has grid = load at every step.
C19_GridCarriesLoad ==
    (pc = "solved" /\ NothingButGrid) =>
        /\ objective >= GridOnlyFrom(0)
        /\ (objective = GridOnlyFrom(0)) => grid_is_load

\* C19 amended: the same for a grid price that is positive and the same at
\* every step and a load that never exceeds the grid limit.
C19_GridCarriesLoadAtFlatPrice ==
    (pc = "solved" /\ NothingButGrid /\ FlatPositivePrice /\ LoadWithinGridLimit) =>
        /\ objective >= GridOnlyFrom(0)
        /\ (objective = GridOnlyFrom(0)) => grid_is_load

C19_Witness ==
    /\ pc = "solved"
    /\ NothingButGrid
    /\ FlatPositivePrice
    /\ LoadWithinGridLimit
    /\ objective = GridOnlyFrom(0)
    /\ grid_is_load
    /\ cur.P_grid = 470

C21_RunLeavesProcessStateAlone ==
    [][environ' = environ /\ rcParams' = rcParams]_vars

\* ---------------------------------------------------------------------------
\* C22: a run calls model.solve once and never again: a run that is past the
\* solve has made exactly one call, the count only ever rises from 0 to 1 at
\* the solve itself, and whatever the solver answered (a status other than
\* Optimal included) the step after the solve is the result extraction, which
\* returns or raises.
C22_SolvedOnceThenExtracted ==
    /\ [](/\ solver_calls <= 1
          /\ (pc \in {"solved", "returned"}) => solver_calls = 1)
    /\ [][/\ (solver_calls' > solver_calls) => (pc = "built" /\ solver_calls = 0)
          /\ (pc = "solved") => (pc' \in {"returned", "raised"}
                                  /\ solver_calls' = solver_calls)]_vars

C22_Witness ==
    /\ pc = "returned"
    /\ solver_calls = 1
    /\ solve_status.status = "Infeasible"
    /\ run = 2

\* ---------------------------------------------------------------------------
\* C23: the resampled series repeats with a period of one day: for every
\* index i of the first day and every day j below num_days the value at
\* i + j * (n * steps_per_hour) equals the value at i.
C23_UpsamplePeriodic ==
    (pc = "upsampled") =>
        LET L == Len(load_profile_24h) * cfg.steps_per_hour
        IN  \A j \in 0..(cfg.num_days - 1) : \A i \in 1..L :
                load_profile.num[i + j * L] = load_profile.num[i]

C23_Witness ==
    /\ pc = "upsampled"
    /\ load_profile_24h = << 5, 0, 9 >>
    /\ cfg.steps_per_hour = 2
    /\ cfg.num_days = 2
    /\ load_profile.num[8] = load_profile.num[2]
    /\ load_profile.num[2] # load_profile.num[1]

\* ---------------------------------------------------------------------------
\* C24: at every step t the reported H2_Level[t], recomputed from the solved
\* level, the production and the fuel-cell consumption of the step, equals
\* the solved tank level of the following step, E_h2[(t+1) mod T]; at the
\* last step that is the level of step 0, the initial level.
C24_RecomputedLevelIsNextLevel ==
    HasStep =>
        /\ H2_Level(cfg, cur) = cur.E_h2_next
        /\ LastStep => (cur.E_h2_next = first.E_h2 /\ H2_Level(cfg, cur) = initial_h2_level)

C24_Witness ==
    /\ pc = "solved"
    /\ LastStep
    /\ cur.P_fc > 0
    /\ cur.E_h2 > first.E_h2
    /\ H2_Level(cfg, cur) = first.E_h2

\* ---------------------------------------------------------------------------
\* the assignment of one step with the storages at rest at their initial
\* levels, the diesel off, no grid power, all PV and all load curtailed,
\* put to every bound of lines 176-206 and every constraint of lines 208-273
IdleSatisfies(c, load_t, available) ==
    LET E_battery == initial_battery_level(c)
        E_h2 == initial_h2_level
    IN  /\ bounds_P_grid(c, 0)
        /\ bounds_P_load_curt(load_t)
        /\ bounds_P_diesel(c, 0)
        /\ bounds_F_diesel(0)
        /\ bounds_P_charge(c, 0)
        /\ bounds_P_discharge(c, 0)
        /\ bounds_E_battery(c, E_battery)
        /\ bounds_P_pv(0, available)
        /\ bounds_P_elec(0)
        /\ bounds_P_fc(0)
        /\ bounds_E_h2(E_h2)
        /\ bounds_P_elec_s(0, 0)
        /\ bounds_H_produced(0)
        /\ power_balance(load_t, 0, 0, 0, 0, 0, load_t, 0, 0)
        /\ pv_balance(available, 0, available)
        /\ diesel_min(c, 0, 0)
        /\ diesel_max(c, 0, 0)
        /\ fuel_cons(0, 0, 0)
        /\ battery_initial(c, E_battery)
        /\ battery_dynamics(c, E_battery, E_battery, 0, 0)
        /\ charge_limit(c, 0, 0)
        /\ discharge_limit(c, 0, 0)
        /\ battery_cyclic_soc(c, E_battery, 0, 0)
        /\ h2_initial(E_h2)
        /\ elec_sum(0, 0, 0)
        /\ h2_prod(0, 0, 0)
        /\ elec_s1_before_s2(0, 0)
        /\ elec_s2_activation(0, 0)
        /\ fc_limit(0, 0)
        /\ elec_limit(0, 0)
        /\ h2_dyn(c, E_h2, E_h2, 0, 0)
        /\ h2_cyclic(c, E_h2, E_h2, 0, 0)

\* the configurations the idle assignment is tried for: the request's own and
\* the plants of the walk at the request's horizon
IdlePlants ==
    {cfg} \cup {Configure([plant EXCEPT !.num_days = params.num_days,
                                         !.time_resolution_minutes =
                                             params.time_resolution_minutes,
                                         !.weather = params.weather]) :
                    plant \in DispatchPlants}

\* the load and the solar sample a step's constraints are written with
StepInputs(step) == << At(load_profile, step), solar_profile.num[step + 1] >>

\* one step for each distinct pair of load and solar sample of the horizon:
\* the constraints of two steps with the same pair are the same
DistinctSteps ==
    LET steps == 0..(time_horizon(cfg) - 1)
    IN  {CHOOSE step \in steps : StepInputs(step) = inputs :
             inputs \in {StepInputs(step) : step \in steps}}

\* C26: for every validated configuration and every load profile without a
\* negative value the idle assignment satisfies every constraint of the model,
\* so the solver does not answer Infeasible for such inputs.
C26_IdleAssignmentFeasible ==
    /\ (pc = "built" /\ IdleFeasible(cfg, load_profile)) =>
           \A c \in IdlePlants : \A step \in DistinctSteps :
               IdleSatisfies(c, At(load_profile, step),
                             solar_available(c, solar_profile, step))
    /\ (pc = "solved" /\ IdleFeasible(cfg, load_profile)) =>
           solve_status.status # "Infeasible"

C26_Witness ==
    /\ pc = "solved"
    /\ solve_status.status = "Optimal"
    /\ IdleFeasible(cfg, load_profile)
    /\ At(load_profile, 0) > electrolyzer_capacity \div 2
    /\ solar_available(cfg, solar_profile, 12 * steps_per_hour(cfg)) > 0
    /\ cfg.num_days = MaxNumDays

\* ---------------------------------------------------------------------------
\* C27: in every assignment that satisfies the constraints the curtailed load
\* of a step is at most the load of that step, so the served load of the step
\* is neither negative nor above the demand.  Stated of the last step of a
\* complete assignment.
C27_CurtailedWithinLoad ==
    (pc = "solved") =>
        /\ cur.P_load_curt <= At(load_profile, t)
        /\ At(load_profile, t) - cur.P_load_curt >= 0
        /\ At(load_profile, t) - cur.P_load_curt <= At(load_profile, t)

----------------------------------------------------------------------------
(* The walk with the hydrogen totals of the summary, lines 345-348          *)

\* total_h2_produced_kg (line 346) and total_h2_consumed_kg (lines 347-348)
\* of the steps solved so far, in the unit of the tank level
AssignCountedStep ==
    /\ AssignValues
    /\ totals' =
          [h2_produced |-> totals.h2_produced + cur'.H_produced * step_quarters(cfg),
           h2_consumed |-> totals.h2_consumed
                           + cur'.P_fc * step_quarters(cfg) * fc_conversion_rate,
           producing_steps |-> totals.producing_steps
                               + (IF cur'.H_produced > 0 THEN 1 ELSE 0)]
    /\ totals'.producing_steps <= MaxProducingSteps
    /\ UNCHANGED << objective, grid_is_load >>

InitTotals ==
    /\ params = PricedPlant
    /\ load_profile_24h \in {DayProfile(470, 940), ConstantProfile(HoursPerDay, 800)}
    /\ price_profile_24h = ConstantProfile(HoursPerDay, 5)
    /\ cfg = Configure(params)
    /\ load_profile = PreparedLoad(cfg, load_profile_24h, price_profile_24h)
    /\ price_profile = PreparedPrice(cfg, load_profile_24h, price_profile_24h)
    /\ solar_profile = PreparedSolar(cfg)
    /\ pc = "solving"
    /\ model_built = TRUE
    /\ solver_calls = 1
    /\ solve_status = NoStatus
    /\ raised = NoException
    /\ response = NoResponse
    /\ t = -1
    /\ cur = NoStep
    /\ first = NoLevels
    /\ objective = 0
    /\ grid_is_load = TRUE
    /\ summary = NoSummary
    /\ environ = ""
    /\ run = 1
    /\ previous = NoPrevious
    /\ totals = NoTotals
    /\ rcParams = rcParamsDefault
    /\ StoresAtImport

NextTotals ==
    \/ AssignCountedStep
    \/ NextStep

SpecTotals == InitTotals /\ [][NextTotals]_vars

\* C28: in every assignment that satisfies the constraints the hydrogen mass
\* produced over the whole horizon equals the hydrogen mass the fuel cell
\* consumed over the whole horizon (Hydrogen_Produced_kg = Hydrogen_Consumed_kg
\* before rounding).
C28_HydrogenProducedIsConsumed ==
    (pc = "solved") => totals.h2_produced = totals.h2_consumed

C28_Witness ==
    /\ pc = "solved"
    /\ totals.producing_steps = 2
    /\ totals.h2_produced >= 2 * H2LevelStep
    /\ totals.h2_consumed = totals.h2_produced

----------------------------------------------------------------------------
(* app/api/endpoints/actions.py: alerts and suggestions kept in memory.    *)
(* A handler runs up to its await asyncio.sleep when it is called and the  *)
(* rest of its body, which has no further await, in one piece when the     *)
(* event loop resumes it; the handlers in flight resume in any order.      *)

SiteIds == {"site_a", "site_b"}

AlertIds == {"alert_1", "alert_9"}

SuggestionIds == {"sugg_1", "sugg_3"}

\* the index of the first item of the list with that id, 0 when there is none:
\* the for loops of lines 43-46, 53-58 and 65-70 return at the first match
FirstMatch(items, item_id) ==
    IF \E i \in 1..Len(items) : items[i].id = item_id
    THEN CHOOSE i \in 1..Len(items) :
             /\ items[i].id = item_id
             /\ \A j \in 1..(i - 1) : items[j].id # item_id
    ELSE 0

\* lines 42-47, 52-59, 64-71: the place of the item the request names, 0 when
\* the site is not a key of the dictionary or no item of the site has the id
Found(store, site_id, item_id) ==
    IF site_id \in DOMAIN store THEN FirstMatch(store[site_id], item_id) ELSE 0

\* item.status = status for the item at place i of the site's list
WithStatus(store, site_id, i, status) ==
    [store EXCEPT ![site_id][i].status = status]

\* a reader that returns the whole list of the site
get_suggestions_unfiltered(store, site_id) ==
    IF site_id \in DOMAIN store THEN store[site_id] ELSE << >>

RECURSIVE PendingOf(_)
\* [s for s in items if s.status == 'pending']
PendingOf(items) ==
    IF items = << >> THEN << >>
    ELSE (IF Head(items).status = "pending" THEN << Head(items) >> ELSE << >>)
         \o PendingOf(Tail(items))

\* line 165
get_suggestions(store, site_id) ==
    PendingOf(IF site_id \in DOMAIN store THEN store[site_id] ELSE << >>)

\* a request arrives: its handler starts and waits in asyncio.sleep
\* (lines 41, 51, 63, 164)
Call ==
    /\ calls < MaxCalls
    /\ calls' = calls + 1
    /\ \E site_id \in SiteIds :
          \E request \in
                {[n |-> calls + 1, kind |-> "acknowledge_alert", site_id |-> site_id,
                  item_id |-> a] : a \in AlertIds}
                \cup {[n |-> calls + 1, kind |-> k, site_id |-> site_id, item_id |-> g] :
                         k \in {"accept_suggestion", "reject_suggestion"},
                         g \in SuggestionIds}
                \cup {[n |-> calls + 1, kind |-> "get_suggestions", site_id |-> site_id,
                       item_id |-> "none"]} :
             in_flight' = in_flight \cup {request}
    /\ UNCHANGED << MOCK_ALERTS, MOCK_RL_SUGGESTIONS, LAST_SUGGESTION_ACTION, answered,
                    now, routerVars >>

Answer(request, code, result) ==
    [n |-> request.n, kind |-> request.kind, site_id |-> request.site_id,
     item_id |-> request.item_id, code |-> code, result |-> result]

\* lines 42-47
acknowledge_alert ==
    \E request \in in_flight :
        /\ request.kind = "acknowledge_alert"
        /\ in_flight' = in_flight \ {request}
        /\ LET i == Found(MOCK_ALERTS, request.site_id, request.item_id)
           IN  IF i > 0
               THEN /\ MOCK_ALERTS' =
                          WithStatus(MOCK_ALERTS, request.site_id, i, "acknowledged")
                    /\ answered' = Answer(request, 200, << >>)
               ELSE /\ MOCK_ALERTS' = MOCK_ALERTS
                    /\ answered' = Answer(request, 404, << >>)
        /\ UNCHANGED << MOCK_RL_SUGGESTIONS, LAST_SUGGESTION_ACTION, now, calls,
                        routerVars >>

\* a decision that stamps the site's cooldown whether or not it found the item
Decide_stamping_always(request, status) ==
    /\ in_flight' = in_flight \ {request}
    /\ now' = now + 1
    /\ LAST_SUGGESTION_ACTION' = (request.site_id :> now') @@ LAST_SUGGESTION_ACTION
    /\ LET i == Found(MOCK_RL_SUGGESTIONS, request.site_id, request.item_id)
       IN  IF i > 0
           THEN /\ MOCK_RL_SUGGESTIONS' =
                      WithStatus(MOCK_RL_SUGGESTIONS, request.site_id, i, status)
                /\ answered' = Answer(request, 200, << >>)
           ELSE /\ MOCK_RL_SUGGESTIONS' = MOCK_RL_SUGGESTIONS
                /\ answered' = Answer(request, 404, << >>)
    /\ UNCHANGED << MOCK_ALERTS, calls, routerVars >>

\* lines 52-59 (status 'accepted') and 64-71 (status 'rejected')
Decide(request, status) ==
    /\ in_flight' = in_flight \ {request}
    /\ LET i == Found(MOCK_RL_SUGGESTIONS, request.site_id, request.item_id)
       IN  IF i > 0
           THEN /\ now' = now + 1
                /\ MOCK_RL_SUGGESTIONS' =
                      WithStatus(MOCK_RL_SUGGESTIONS, request.site_id, i, status)
                /\ LAST_SUGGESTION_ACTION' =
                      (request.site_id :> now') @@ LAST_SUGGESTION_ACTION
                /\ answered' = Answer(request, 200, << >>)
           ELSE /\ now' = now
                /\ MOCK_RL_SUGGESTIONS' = MOCK_RL_SUGGESTIONS
                /\ LAST_SUGGESTION_ACTION' = LAST_SUGGESTION_ACTION
                /\ answered' = Answer(request, 404, << >>)
    /\ UNCHANGED << MOCK_ALERTS, calls, routerVars >>

accept_suggestion ==
    \E request \in in_flight :
        request.kind = "accept_suggestion" /\ Decide(request, "accepted")

reject_suggestion ==
    \E request \in in_flight :
        request.kind = "reject_suggestion" /\ Decide(request, "rejected")

\* line 165
GetSuggestions ==
    \E request \in in_flight :
        /\ request.kind = "get_suggestions"
        /\ in_flight' = in_flight \ {request}
        /\ answered' = Answer(request, 200,
                              get_suggestions(MOCK_RL_SUGGESTIONS, request.site_id))
        /\ UNCHANGED << MOCK_ALERTS, MOCK_RL_SUGGESTIONS, LAST_SUGGESTION_ACTION, now,
                        calls, routerVars >>

\* prediction.py, get_rl_suggestion, lines 186-200: a new pending suggestion
\* is put at the front of the site's list, and the site gets a list when it
\* had none.  The handler has no await.  The id of the new suggestion is
\* given by models.RLSuggestion and may repeat an id of the list.
get_rl_suggestion ==
    /\ calls < MaxCalls
    /\ calls' = calls + 1
    /\ \E site_id \in SiteIds, new_id \in SuggestionIds :
          LET items == IF site_id \in DOMAIN MOCK_RL_SUGGESTIONS
                       THEN MOCK_RL_SUGGESTIONS[site_id] ELSE << >>
              new_suggestion == [id |-> new_id, status |-> "pending"]
          IN  /\ Len(items) < MaxSuggestions
              /\ MOCK_RL_SUGGESTIONS' =
                    (site_id :> (<< new_suggestion >> \o items)) @@ MOCK_RL_SUGGESTIONS
              /\ answered' = [n |-> calls + 1, kind |-> "get_rl_suggestion",
                              site_id |-> site_id, item_id |-> new_id, code |-> 200,
                              result |-> << new_suggestion >>]
    /\ now' = now + 1
    /\ UNCHANGED << MOCK_ALERTS, LAST_SUGGESTION_ACTION, in_flight, routerVars >>

InitActions ==
    /\ StoresAtImport
    /\ params = DefaultParams
    /\ load_profile_24h = << >>
    /\ price_profile_24h = << >>
    /\ pc = "idle"
    /\ cfg = NoCfg
    /\ load_profile = NoSeries
    /\ price_profile = NoSeries
    /\ solar_profile = NoSeries
    /\ model_built = FALSE
    /\ solver_calls = 0
    /\ solve_status = NoStatus
    /\ raised = NoException
    /\ response = NoResponse
    /\ t = -1
    /\ cur = NoStep
    /\ first = NoLevels
    /\ objective = 0
    /\ grid_is_load = TRUE
    /\ summary = NoSummary
    /\ environ = ""
    /\ run = 1
    /\ previous = NoPrevious
    /\ totals = NoTotals
    /\ rcParams = rcParamsDefault

NextActions ==
    \/ Call
    \/ acknowledge_alert
    \/ accept_suggestion
    \/ reject_suggestion
    \/ GetSuggestions
    \/ get_rl_suggestion

SpecActions == InitActions /\ [][NextActions]_vars

IsPending(s) == s.status = "pending"

\* the pending suggestions stored for the site, in stored order
StoredPending(site_id) ==
    IF site_id \in DOMAIN MOCK_RL_SUGGESTIONS
    THEN SelectSeq(MOCK_RL_SUGGESTIONS[site_id], IsPending)
    ELSE << >>

\* the item that is k-th from the end of the list: get_rl_suggestion inserts
\* at the front, so an item keeps its place counted from the end
FromEnd(items, k) == items[Len(items) - k + 1]

\* the step answers a request of one of these kinds
Answers(kinds) == answered' # answered /\ answered'.kind \in kinds

\* C25: whatever accept, reject and creation requests came before,
\* get_suggestions(site) returns exactly the suggestions stored for the site
\* whose status is 'pending', in stored order, and nothing for a site without
\* a list; a suggestion whose status is no longer 'pending' never becomes
\* pending again, so it appears in no later result.
C25_GetReturnsPending ==
    [][/\ Answers({"get_suggestions"}) =>
             /\ answered'.code = 200
             /\ answered'.result = StoredPending(answered'.site_id)
             /\ (answered'.site_id \notin DOMAIN MOCK_RL_SUGGESTIONS)
                    => answered'.result = << >>
       /\ \A site_id \in DOMAIN MOCK_RL_SUGGESTIONS :
             \A k \in 1..Len(MOCK_RL_SUGGESTIONS[site_id]) :
                ~IsPending(FromEnd(MOCK_RL_SUGGESTIONS[site_id], k))
                    => ~IsPending(FromEnd(MOCK_RL_SUGGESTIONS'[site_id], k))]_vars

C25_Witness ==
    /\ answered.kind = "get_suggestions"
    /\ answered.site_id = "site_a"
    /\ Len(MOCK_RL_SUGGESTIONS["site_a"]) = 3
    /\ Len(answered.result) = 2
    /\ \E i \in 1..3 : MOCK_RL_SUGGESTIONS["site_a"][i].status = "accepted"
    /\ answered.result = StoredPending("site_a")

\* ---------------------------------------------------------------------------
\* C29: a decision is final: a suggestion whose status is 'accepted' or
\* 'rejected' keeps that status through every later step, whatever the order
\* in which concurrent accept and reject requests resume, and a request that
\* finds the suggestion already decided does not report success.
C29_DecisionFinal ==
    [][/\ \A site_id \in DOMAIN MOCK_RL_SUGGESTIONS :
             \A k \in 1..Len(MOCK_RL_SUGGESTIONS[site_id]) :
                ~IsPending(FromEnd(MOCK_RL_SUGGESTIONS[site_id], k))
                    => FromEnd(MOCK_RL_SUGGESTIONS'[site_id], k)
                           = FromEnd(MOCK_RL_SUGGESTIONS[site_id], k)
       /\ (Answers({"accept_suggestion", "reject_suggestion"}) /\ answered'.code = 200)
             => LET i == Found(MOCK_RL_SUGGESTIONS, answered'.site_id, answered'.item_id)
                IN  IsPending(MOCK_RL_SUGGESTIONS[answered'.site_id][i])]_vars

\* ---------------------------------------------------------------------------
\* the dictionary a request of that kind looks in, and the status it writes
StoreOf(kind) == IF kind = "acknowledge_alert" THEN MOCK_ALERTS ELSE MOCK_RL_SUGGESTIONS

StatusOf(kind) ==
    IF kind = "acknowledge_alert" THEN "acknowledged"
    ELSE IF kind = "accept_suggestion" THEN "accepted" ELSE "rejected"

Matches(store, site_id, item_id) ==
    IF site_id \in DOMAIN store
    THEN {i \in 1..Len(store[site_id]) : store[site_id][i].id = item_id}
    ELSE {}

\* C30: acknowledge_alert, accept_suggestion and reject_suggestion answer 404
\* for a site that is not known or an id that no item of the site has, and then
\* leave every alert, every suggestion and every cooldown timestamp as it was;
\* a call that succeeds changes the status of one item, which has the id asked
\* for, and nothing else in the two lists; the cooldown timestamp of a site
\* changes only in a successful accept or reject for that site.
C30_NotFoundLeavesStores ==
    [][/\ Answers({"acknowledge_alert", "accept_suggestion", "reject_suggestion"}) =>
             LET r == answered'
                 store == StoreOf(r.kind)
                 hits == Matches(store, r.site_id, r.item_id)
             IN  /\ (hits = {}) =>
                        /\ r.code = 404
                        /\ UNCHANGED << MOCK_ALERTS, MOCK_RL_SUGGESTIONS,
                                        LAST_SUGGESTION_ACTION >>
                 /\ (hits # {}) =>
                        /\ r.code = 200
                        /\ \E i \in hits :
                              IF r.kind = "acknowledge_alert"
                              THEN /\ MOCK_ALERTS' = [MOCK_ALERTS EXCEPT
                                          ![r.site_id][i].status = StatusOf(r.kind)]
                                   /\ UNCHANGED << MOCK_RL_SUGGESTIONS,
                                                   LAST_SUGGESTION_ACTION >>
                              ELSE /\ MOCK_RL_SUGGESTIONS' = [MOCK_RL_SUGGESTIONS EXCEPT
                                          ![r.site_id][i].status = StatusOf(r.kind)]
                                   /\ UNCHANGED MOCK_ALERTS
       /\ (LAST_SUGGESTION_ACTION' # LAST_SUGGESTION_ACTION) =>
             /\ Answers({"accept_suggestion", "reject_suggestion"})
             /\ answered'.code = 200
             /\ \A site_id \in DOMAIN LAST_SUGGESTION_ACTION' \ {answered'.site_id} :
                   /\ site_id \in DOMAIN LAST_SUGGESTION_ACTION
                   /\ LAST_SUGGESTION_ACTION'[site_id] = LAST_SUGGESTION_ACTION[site_id]]_vars

C30_Witness ==
    /\ answered.kind = "reject_suggestion"
    /\ answered.code = 404
    /\ answered.site_id = "site_b"
    /\ "site_a" \in DOMAIN LAST_SUGGESTION_ACTION
    /\ "site_b" \notin DOMAIN LAST_SUGGESTION_ACTION
    /\ \E i \in 1..Len(MOCK_ALERTS["site_a"]) :
          MOCK_ALERTS["site_a"][i].status = "acknowledged"

====
